---- MODULE Spec2Model ----
(***************************************************************************)
(* Model of the DebugFlow backend core: ProjectProcessor (file ingestion), *)
(* AIAnalyzer (bug analysis, response interpretation, implementation       *)
(* generation).  Each public operation is called from the idle state with  *)
(* inputs drawn from small sets, runs as the code runs it, and leaves its  *)
(* outcome in `result` until the caller takes it.                          *)
(***************************************************************************)
EXTENDS Integers, Sequences, FiniteSets, TLC

VARIABLES
    pc,           \* "idle" | "await" (suspended on the model call) | "done"
    op,           \* the public operation in progress, "none" when idle
    files,        \* the batch passed to processUploadedFiles / processAppProject
    projectData,  \* the caller metadata of processAppProject
    fix,          \* the fix passed to generateImplementation
    reply,        \* what the completion call produced (recorded when it settles)
    promptBuilt,  \* the prompt of the running request was built without a throw
    modelCalls,   \* completions.create calls made by the running request
    parseCalls,   \* parseAnalysisResponse calls made by the running request
    result,       \* outcome of the operation: a returned value or a raised error
    stored,       \* data/<id>.json of one project: whether it exists, and its content
    handler       \* per route handler working on that project: its position and
                  \* the record its updateProject call has read

vars == <<pc, op, files, projectData, fix, reply, promptBuilt, modelCalls, parseCalls, result,
          stored, handler>>

\* ------------------------------------------------------------------ bounds
MaxFiles == 2     \* files in one uploaded batch
MaxLen == 3       \* lexical chunks in one raw model response
MaxNames == 3     \* files in a list handed to detectProjectType on its own

\* ------------------------------------------------------------ small helpers
Range(s) == {s[i] : i \in 1..Len(s)}

SeqsUpTo(S, n) == UNION {[1..k -> S] : k \in 0..n}

EmptyObject == [k \in {} |-> ""]

\* JS object spread of two objects: keys of b win
Spread(a, b) == [k \in DOMAIN a \cup DOMAIN b |-> IF k \in DOMAIN b THEN b[k] ELSE a[k]]

RECURSIVE SumLines(_)
SumLines(fs) == IF fs = <<>> THEN 0 ELSE Head(fs).lines + SumLines(Tail(fs))

\* ------------------------------------------------------- uploaded file inputs
\* originalname of an uploaded file (multer's fileFilter lets .json .txt .js .py .md through)
FileNames == {"package.json", "requirements.txt", "app.js", "view.jsx", "main.py", "notes.md"}

\* Sample file contents.  nl is the number of '\n' characters in the text.
\*   pkgBoth : {"dependencies":{"lib":"1","tool":"1"}, "devDependencies":{"tool":"2"}}
\*   pkgDeps : {"dependencies":{"lib":"1"}}
\*   null    : the JSON literal null
\*   func    : function foo(a,b){}
\*   garbage : text that is neither JSON nor JavaScript
Contents ==
    { [body |-> "pkgBoth", nl |-> 3], [body |-> "pkgDeps", nl |-> 2],
      [body |-> "null", nl |-> 0],    [body |-> "func", nl |-> 1],
      [body |-> "garbage", nl |-> 0] }

\* An uploaded file: its name and what fs.readFile does with its path.
UploadedFiles ==
    {[originalname |-> n, readable |-> FALSE, content |-> [body |-> "garbage", nl |-> 0]] : n \in FileNames}
    \cup {[originalname |-> n, readable |-> TRUE, content |-> c] : n \in FileNames, c \in Contents}

\* A batch as multer hands it over: every file is stored under its own path.
Batches ==
    {[i \in 1..Len(b) |-> [originalname |-> b[i].originalname, path |-> i,
                           readable |-> b[i].readable, content |-> b[i].content]] :
        b \in SeqsUpTo(UploadedFiles, MaxFiles)}

\* ---------------------------------------------------------- ProjectProcessor
\* path.extname of the names above
extname(name) ==
    CASE name = "package.json" -> ".json"
      [] name = "requirements.txt" -> ".txt"
      [] name = "app.js" -> ".js"
      [] name = "view.jsx" -> ".jsx"
      [] name = "main.py" -> ".py"
      [] OTHER -> ".md"

detectLanguage(extension) ==
    CASE extension = ".js" -> "JavaScript"
      [] extension = ".jsx" -> "JavaScript (React)"
      [] extension = ".ts" -> "TypeScript"
      [] extension = ".tsx" -> "TypeScript (React)"
      [] extension = ".py" -> "Python"
      [] extension = ".java" -> "Java"
      [] extension = ".php" -> "PHP"
      [] extension = ".rb" -> "Ruby"
      [] extension = ".go" -> "Go"
      [] extension = ".rs" -> "Rust"
      [] extension = ".swift" -> "Swift"
      [] OTHER -> "Unknown"

\* a classifier that looks for requirements.txt before package.json
detectProjectTypePythonFirst(fs) ==
    LET hasFile(name) == \E i \in 1..Len(fs) : fs[i].name = name IN
    IF hasFile("requirements.txt") THEN "Python"
    ELSE IF hasFile("package.json") THEN "Node.js/JavaScript"
    ELSE IF hasFile("pom.xml") THEN "Java"
    ELSE IF hasFile("Gemfile") THEN "Ruby"
    ELSE IF hasFile("go.mod") THEN "Go"
    ELSE "Generic"

detectProjectType(fs) ==
    LET hasFile(name) == \E i \in 1..Len(fs) : fs[i].name = name IN
    IF hasFile("package.json") THEN "Node.js/JavaScript"
    ELSE IF hasFile("requirements.txt") THEN "Python"
    ELSE IF hasFile("pom.xml") THEN "Java"
    ELSE IF hasFile("Gemfile") THEN "Ruby"
    ELSE IF hasFile("go.mod") THEN "Go"
    ELSE "Generic"

\* JSON.parse of a sample content: throws, or yields null, or yields an object
JSONparse(content) ==
    CASE content.body = "pkgBoth" ->
            [threw |-> FALSE, isNull |-> FALSE,
             value |-> [dependencies |-> [lib |-> "1", tool |-> "1"],
                        devDependencies |-> [tool |-> "2"]]]
      [] content.body = "pkgDeps" ->
            [threw |-> FALSE, isNull |-> FALSE,
             value |-> [dependencies |-> [lib |-> "1"]]]
      [] content.body = "null" ->
            [threw |-> FALSE, isNull |-> TRUE, value |-> EmptyObject]
      [] OTHER -> [threw |-> TRUE, isNull |-> FALSE, value |-> EmptyObject]

\* obj.key as the operand of a spread: an absent key spreads nothing
Member(obj, key) == IF key \in DOMAIN obj THEN obj[key] ELSE EmptyObject

\* a merge written the other way round: runtime dependencies override development ones
parsePackageJsonDevFirst(dependencies, file) ==
    LET packageJson == JSONparse(file.content) IN
    IF packageJson.threw \/ packageJson.isNull THEN dependencies
    ELSE Spread(dependencies,
                [npm |-> Spread(Member(packageJson.value, "devDependencies"),
                                Member(packageJson.value, "dependencies"))])

\* the body of the try block for one package.json (lines 314-322): reading a
\* property of null throws like a failed parse, and the catch keeps what was there
parsePackageJson(dependencies, file) ==
    LET packageJson == JSONparse(file.content) IN
    IF packageJson.threw \/ packageJson.isNull THEN dependencies
    ELSE Spread(dependencies,
                [npm |-> Spread(Member(packageJson.value, "dependencies"),
                                Member(packageJson.value, "devDependencies"))])

RECURSIVE extractLoop(_, _)
extractLoop(fs, dependencies) ==
    IF fs = <<>> THEN dependencies
    ELSE extractLoop(Tail(fs),
                     IF Head(fs).name = "package.json"
                     THEN parsePackageJson(dependencies, Head(fs))
                     ELSE dependencies)

extractDependencies(fs) == extractLoop(fs, EmptyObject)

EmptyAnalysis ==
    [functions |-> <<>>, classes |-> <<>>, imports |-> <<>>, complexity |-> 0,
     potentialIssues |-> <<>>]

\* Parser.parse(content, {ecmaVersion: 2022, sourceType: 'module'}) on the sample
\* contents: a SyntaxError, or the declarations walk.simple visits (the parser
\* is not asked for locations, so node.loc?.start.line is undefined)
ParserParse(content) ==
    CASE content.body = "func" ->
            [threw |-> FALSE,
             functions |-> <<[name |-> "foo", line |-> "undefined", params |-> 2]>>]
      [] content.body = "null" -> [threw |-> FALSE, functions |-> <<>>]
      [] OTHER -> [threw |-> TRUE, functions |-> <<>>]

\* the SyntaxError is caught inside and leaves the summary as it was
analyzeJavaScript(content, analysis) ==
    LET ast == ParserParse(content) IN
    IF ast.threw THEN analysis
    ELSE [analysis EXCEPT !.functions = @ \o ast.functions]

\* an analyzer without the extension test: every file goes to the parser
analyzeFileAnyExtension(content, extension) ==
    analyzeJavaScript(content, EmptyAnalysis)

analyzeFile(content, extension) ==
    IF extension = ".js" \/ extension = ".jsx"
    THEN analyzeJavaScript(content, EmptyAnalysis)
    ELSE EmptyAnalysis

\* languages.add on a Set kept in insertion order
SetAdd(seq, x) == IF x \in Range(seq) THEN seq ELSE Append(seq, x)

\* one iteration of the per-file loop (lines 229-252); acc holds the three accumulators
processOne(acc, file) ==
    IF ~file.readable THEN acc       \* readFile throws: logged, nothing pushed
    ELSE LET lines == file.content.nl + 1
             extension == extname(file.originalname)
         IN [processedFiles |->
                Append(acc.processedFiles,
                       [name |-> file.originalname, path |-> file.path,
                        content |-> file.content, lines |-> lines,
                        extension |-> extension,
                        language |-> detectLanguage(extension),
                        analysis |-> analyzeFile(file.content, extension)]),
             totalLines |-> acc.totalLines + lines,
             languages |-> SetAdd(acc.languages, detectLanguage(extension))]

\* a loop whose try/catch encloses the whole iteration: the first failed read ends it
RECURSIVE processLoopStopsAtFailure(_, _)
processLoopStopsAtFailure(fs, acc) ==
    IF fs = <<>> \/ ~Head(fs).readable THEN acc
    ELSE processLoopStopsAtFailure(Tail(fs), processOne(acc, Head(fs)))

RECURSIVE processLoop(_, _)
processLoop(fs, acc) ==
    IF fs = <<>> THEN acc ELSE processLoop(Tail(fs), processOne(acc, Head(fs)))

processUploadedFiles(fs) ==
    LET acc == processLoop(fs, [processedFiles |-> <<>>, totalLines |-> 0, languages |-> <<>>])
    IN [name |-> "Uploaded Project",
        files |-> acc.processedFiles,
        totalFiles |-> Len(acc.processedFiles),
        totalLines |-> acc.totalLines,
        languages |-> acc.languages,
        projectType |-> detectProjectType(acc.processedFiles),
        dependencies |-> extractDependencies(acc.processedFiles)]

\* Caller metadata objects: JSON.parse(req.body.projectData) can be any object.
\* Undefined stands for a missing argument.
ComputedKeys == {"files", "totalFiles", "totalLines", "languages", "projectType", "dependencies"}

Undefined == [undefined |-> TRUE]

CallerValues ==
    [name |-> "Caller App", description |-> "caller text",
     files |-> <<>>, totalFiles |-> 99, totalLines |-> 99,
     languages |-> <<"Caller">>, projectType |-> "Caller",
     dependencies |-> [npm |-> [callerPkg |-> "9"]]]

Metadatas ==
    { Undefined,
      EmptyObject,
      [k \in {"name", "description"} |-> CallerValues[k]],
      CallerValues }

\* projectData.key of a caller object
Prop(obj, key) == IF key \in DOMAIN obj THEN obj[key] ELSE "undefined"

OverlayKeys == {"name", "description", "codebaseUrl", "accessType", "deploymentUrl"}

\* an overlay that spreads the whole caller object over the snapshot
overlaySpreadsCaller(snapshot, data) ==
    [k \in DOMAIN snapshot \cup DOMAIN data \cup OverlayKeys |->
        IF k \in DOMAIN data \cup OverlayKeys THEN Prop(data, k) ELSE snapshot[k]]

\* the object literal returned by processAppProject (lines 270-277)
overlay(snapshot, data) ==
    [k \in DOMAIN snapshot \cup OverlayKeys |->
        IF k \in OverlayKeys THEN Prop(data, k) ELSE snapshot[k]]

\* ---------------------------------------------------------------- AIAnalyzer
\* Raw model text is a sequence of lexical chunks, separated by blank lines:
\*   "{" "}"            braces
\*   sev:high           "severity":"high"          (a member of a JSON object)
\*   sev:urgent         "severity":"urgent"
\*   fixes:[]           "fixes":[]
\*   fixes:[f]          "fixes":[{"title":"Model Fix"}]
\*   rootCause:x        "rootCause":"x"
\*   CRITICAL, medium, low    the bare words
\*   Root cause: it broke     a labelled section
\*   prose              any other words
MemberChunks == {"sev:high", "sev:urgent", "fixes:[]", "fixes:[f]", "rootCause:x"}

Chunks == {"{", "}", "CRITICAL", "medium", "low", "Root cause: it broke", "prose"} \cup MemberChunks

Texts == SeqsUpTo(Chunks, MaxLen)

\* what `await this.openai.chat.completions.create(...)` can produce:
\* a rejection, a response without choices, a choice whose content is null, a text
Replies ==
    {[kind |-> "fail", text |-> <<>>], [kind |-> "noChoices", text |-> <<>>],
     [kind |-> "null", text |-> <<>>]}
    \cup {[kind |-> "text", text |-> t] : t \in Texts}

NoReply == [kind |-> "none", text |-> <<>>]

\* the key and value a member chunk decodes to
MemberOf(chunk) ==
    CASE chunk = "sev:high" -> [severity |-> "high"]
      [] chunk = "sev:urgent" -> [severity |-> "urgent"]
      [] chunk = "fixes:[]" -> [fixes |-> <<>>]
      [] chunk = "fixes:[f]" -> [fixes |-> <<[title |-> "Model Fix"]>>]
      [] chunk = "rootCause:x" -> [rootCause |-> "x"]
      [] OTHER -> EmptyObject

\* String.prototype.match(/\{[\s\S]*\}/): from the first "{" to the last "}" after it
FirstBrace(text) ==
    IF \E i \in 1..Len(text) : text[i] = "{"
    THEN CHOOSE i \in 1..Len(text) : text[i] = "{" /\ \A j \in 1..(i-1) : text[j] # "{"
    ELSE 0

LastBrace(text) ==
    IF \E i \in 1..Len(text) : text[i] = "}"
    THEN CHOOSE i \in 1..Len(text) : text[i] = "}" /\ \A j \in (i+1)..Len(text) : text[j] # "}"
    ELSE 0

jsonMatch(text) ==
    LET a == FirstBrace(text)
        b == LastBrace(text)
    IN IF a > 0 /\ b > a
       THEN [found |-> TRUE, region |-> SubSeq(text, a, b)]
       ELSE [found |-> FALSE, region |-> <<>>]

RECURSIVE DecodeMembers(_, _)
DecodeMembers(members, obj) ==
    IF members = <<>> THEN obj
    ELSE DecodeMembers(Tail(members), Spread(obj, MemberOf(Head(members))))

\* JSON.parse of a brace-delimited region: an object of its members (a repeated
\* key keeps the last value), or a SyntaxError when anything else is inside
JSONparseRegion(region) ==
    LET inner == SubSeq(region, 2, Len(region) - 1) IN
    IF \A i \in 1..Len(inner) : inner[i] \in MemberChunks
    THEN [threw |-> FALSE, value |-> DecodeMembers(inner, EmptyObject)]
    ELSE [threw |-> TRUE, value |-> EmptyObject]

\* the severity words that occur in the lowercased chunk
WordsIn(chunk) ==
    CASE chunk = "CRITICAL" -> {"critical"}
      [] chunk = "sev:high" -> {"high"}
      [] chunk = "medium" -> {"medium"}
      [] chunk = "low" -> {"low"}
      [] OTHER -> {}

includes(text, word) == \E i \in 1..Len(text) : word \in WordsIn(text[i])

\* a scan that returns the severity word standing first in the text
extractSeverityFirstInText(text) ==
    LET at == {i \in 1..Len(text) : WordsIn(text[i]) # {}} IN
    IF at = {} THEN "medium"
    ELSE CHOOSE w \in WordsIn(text[CHOOSE i \in at : \A j \in at : i <= j]) : TRUE

extractSeverity(text) ==
    IF includes(text, "critical") THEN "critical"
    ELSE IF includes(text, "high") THEN "high"
    ELSE IF includes(text, "medium") THEN "medium"
    ELSE IF includes(text, "low") THEN "low"
    ELSE "medium"

\* extractSection(text, keyword) || fallback
extractSection(text, keyword, fallback) ==
    IF keyword = "root cause" /\ \E i \in 1..Len(text) : text[i] = "Root cause: it broke"
    THEN "it broke"
    ELSE fallback

extractFixes(text) ==
    <<[id |-> 1, title |-> "Primary Fix", description |-> "Main recommended solution",
       steps |-> <<"Analyze the issue", "Implement the fix", "Test the solution">>,
       riskLevel |-> "low", estimatedTime |-> "30 minutes",
       recommendedAI |-> "openai", reasoning |-> "Best for this type of fix"]>>

getDefaultAnalysis ==
    [rootCause |-> "Code analysis completed. Review recommended fixes.",
     severity |-> "medium",
     impact |-> "Potential improvements identified",
     fixes |-> <<[id |-> 1, title |-> "Code Improvement",
                  description |-> "Implement recommended code improvements",
                  steps |-> <<"Review code structure", "Apply best practices", "Add error handling">>,
                  riskLevel |-> "low", estimatedTime |-> "45 minutes",
                  recommendedAI |-> "openai",
                  reasoning |-> "Comprehensive analysis capabilities"]>>,
     testingStrategy |-> "Unit and integration testing recommended"]

\* the object literal of the fallback branch (lines 97-103)
lenientAnalysis(text) ==
    [rootCause |-> extractSection(text, "root cause", "Analysis completed"),
     severity |-> extractSeverity(text),
     impact |-> extractSection(text, "impact", "Potential application issues"),
     fixes |-> extractFixes(text),
     testingStrategy |-> extractSection(text, "testing", "Comprehensive testing recommended")]

\* what the catch of parseAnalysisResponse does with a region that fails to decode
onDecodeError(text) == getDefaultAnalysis

\* response is the content of the first choice: null, or a text
parseAnalysisResponse(response) ==
    IF response.kind # "text" THEN getDefaultAnalysis    \* .match of null throws
    ELSE LET m == jsonMatch(response.text) IN
         IF m.found
         THEN LET parsed == JSONparseRegion(m.region) IN
              IF parsed.threw THEN onDecodeError(response.text) ELSE parsed.value
         ELSE lenientAnalysis(response.text)

\* a catch that reuses the interpreter's default instead of its own mock
mockReusesDefault == getDefaultAnalysis

\* the object returned by the catch of analyzeBug (lines 35-53)
mockAnalysis ==
    [rootCause |-> "Unable to connect to AI service. Mock analysis: The application may have error handling issues based on common patterns.",
     severity |-> "medium",
     impact |-> "Potential runtime errors when handling edge cases",
     fixes |-> <<[id |-> 1, title |-> "Add Error Handling",
                  description |-> "Implement comprehensive error handling and validation",
                  steps |-> <<"Add try-catch blocks", "Implement input validation", "Add error logging">>,
                  riskLevel |-> "low", estimatedTime |-> "30 minutes",
                  recommendedAI |-> "openai",
                  reasoning |-> "GPT-4 excels at error handling patterns"]>>,
     relatedIssues |-> <<"Input validation", "Error logging">>,
     testingStrategy |-> "Unit tests for error conditions and edge cases"]

PromptFiles == 3

\* Stored project records handed to analyzeBug: a file of a record may lack content
StoredFile(hasContent) == IF hasContent THEN [name |-> "f", content |-> "text"] ELSE [name |-> "f"]

Snapshots ==
    { Undefined,
      [name |-> "p"],
      [name |-> "p", files |-> <<StoredFile(TRUE)>>],
      [name |-> "p", files |-> <<StoredFile(TRUE), StoredFile(FALSE)>>],
      [name |-> "p", files |-> <<StoredFile(TRUE), StoredFile(TRUE), StoredFile(TRUE), StoredFile(FALSE)>>] }

\* createAnalysisPrompt: f.content.slice throws on a sampled file without content
createAnalysisPrompt(data) ==
    LET sample == IF "files" \in DOMAIN data
                  THEN SubSeq(data.files, 1, IF Len(data.files) < PromptFiles THEN Len(data.files) ELSE PromptFiles)
                  ELSE <<>>
    IN [threw |-> \E i \in 1..Len(sample) : "content" \notin DOMAIN sample[i],
        sampled |-> Len(sample)]

\* Fixes handed to generateImplementation (req.body.selectedFix)
Fixes ==
    { Undefined,
      [title |-> "T"],
      [title |-> "T", description |-> "D", steps |-> <<"s1", "s2">>] }

\* the template literal of generateImplementation (lines 163-175)
implementationPrompt(data, f) ==
    [threw |-> "steps" \notin DOMAIN f \/ data = Undefined]

implementationFallback == "Implementation fallback: AI service unavailable. Manual implementation recommended."

\* -------------------------------------------------------------- ProjectManager
\* The route handlers that call updateProject on a project id
Handlers == {"analyze", "implement", "apply"}

\* the record createProject saved for the upload (status 'analyzing')
CreatedProject == [id |-> "p1", status |-> "analyzing", lastModified |-> "created"]

Saved(data) == [exists |-> TRUE, data |-> data]
NoFile == [exists |-> FALSE, data |-> EmptyObject]

\* the updates object each handler passes to updateProject
updatesOf(h) ==
    CASE h = "analyze" -> [status |-> "analyzed", analysis |-> "analysis"]
      [] h = "implement" -> [status |-> "implementing", implementation |-> "implementation"]
      [] OTHER -> [status |-> "completed", deployedAt |-> "now"]

\* updatedProject of updateProject (lines 48-52); the time stamp is the writer's own
updatedProject(project, updates, h) ==
    Spread(Spread(project, updates), [lastModified |-> h])

NotRequested == [pc |-> "none", project |-> EmptyObject]

\* -------------------------------------------------------------- state machine
NoResult == [kind |-> "none", value |-> EmptyObject]
Raised == [kind |-> "raised", value |-> EmptyObject]
Returned(v) == [kind |-> "returned", value |-> v]

Init ==
    /\ pc = "idle"
    /\ op = "none"
    /\ files = <<>>
    /\ projectData = Undefined
    /\ fix = Undefined
    /\ reply = NoReply
    /\ promptBuilt = FALSE
    /\ modelCalls = 0
    /\ parseCalls = 0
    /\ result = NoResult
    /\ stored = Saved(CreatedProject)
    /\ handler = [h \in Handlers |-> NotRequested]

\* await projectProcessor.processUploadedFiles(uploadedFiles)
CallProcessUploadedFiles ==
    /\ pc = "idle"
    /\ \E b \in Batches :
        /\ files' = b
        /\ result' = Returned(processUploadedFiles(b))
    /\ op' = "processUploadedFiles"
    /\ pc' = "done"
    /\ UNCHANGED <<projectData, fix, reply, promptBuilt, modelCalls, parseCalls, stored, handler>>

\* await projectProcessor.processAppProject(uploadedFiles, parsedData):
\* the log line reads projectData.name before anything else
CallProcessAppProject ==
    /\ pc = "idle"
    /\ \E b \in Batches, m \in Metadatas :
        /\ files' = b
        /\ projectData' = m
        /\ result' = IF m = Undefined THEN Raised
                      ELSE Returned(overlay(processUploadedFiles(b), m))
    /\ op' = "processAppProject"
    /\ pc' = "done"
    /\ UNCHANGED <<fix, reply, promptBuilt, modelCalls, parseCalls, stored, handler>>

\* analyzeBug up to its await: the log line outside the try, then the prompt inside it
CallAnalyzeBug ==
    /\ pc = "idle"
    /\ \E d \in Snapshots :
        /\ projectData' = d
        /\ IF d = Undefined
           THEN /\ result' = Raised
                /\ pc' = "done"
                /\ promptBuilt' = FALSE
           ELSE IF createAnalysisPrompt(d).threw
           THEN /\ result' = Returned(mockAnalysis)
                /\ pc' = "done"
                /\ promptBuilt' = FALSE
           ELSE /\ result' = NoResult
                /\ pc' = "await"
                /\ promptBuilt' = TRUE
    /\ op' = "analyzeBug"
    /\ UNCHANGED <<files, fix, reply, modelCalls, parseCalls, stored, handler>>

\* the completion call of analyzeBug settles: line 28 on success, the catch otherwise
AnalyzeBugResume ==
    /\ pc = "await"
    /\ op = "analyzeBug"
    /\ \E r \in Replies :
        /\ reply' = r
        /\ IF r.kind \in {"fail", "noChoices"}
           THEN /\ result' = Returned(mockAnalysis)
                /\ parseCalls' = parseCalls
           ELSE /\ result' = Returned(parseAnalysisResponse(r))
                /\ parseCalls' = parseCalls + 1
    /\ modelCalls' = modelCalls + 1
    /\ pc' = "done"
    /\ UNCHANGED <<op, files, projectData, fix, promptBuilt, stored, handler>>

\* generateImplementation up to its await: fix.title is read outside the try
CallGenerateImplementation ==
    /\ pc = "idle"
    /\ \E d \in {Undefined, [name |-> "p"]}, f \in Fixes :
        /\ projectData' = d
        /\ fix' = f
        /\ IF f = Undefined
           THEN /\ result' = Raised
                /\ pc' = "done"
                /\ promptBuilt' = FALSE
           ELSE IF implementationPrompt(d, f).threw
           THEN /\ result' = Returned(implementationFallback)
                /\ pc' = "done"
                /\ promptBuilt' = FALSE
           ELSE /\ result' = NoResult
                /\ pc' = "await"
                /\ promptBuilt' = TRUE
    /\ op' = "generateImplementation"
    /\ UNCHANGED <<files, reply, modelCalls, parseCalls, stored, handler>>

\* the completion call of generateImplementation settles
GenerateImplementationResume ==
    /\ pc = "await"
    /\ op = "generateImplementation"
    /\ \E r \in Replies :
        /\ reply' = r
        /\ result' = IF r.kind \in {"fail", "noChoices"}
                      THEN Returned(implementationFallback)
                      ELSE Returned(r)       \* the content as it came: null or text
    /\ modelCalls' = modelCalls + 1
    /\ pc' = "done"
    /\ UNCHANGED <<op, files, projectData, fix, promptBuilt, parseCalls, stored, handler>>

\* the caller takes the outcome; the next request starts from scratch
Finish ==
    /\ pc = "done"
    /\ pc' = "idle"
    /\ op' = "none"
    /\ files' = <<>>
    /\ projectData' = Undefined
    /\ fix' = Undefined
    /\ reply' = NoReply
    /\ promptBuilt' = FALSE
    /\ modelCalls' = 0
    /\ parseCalls' = 0
    /\ result' = NoResult
    /\ UNCHANGED <<stored, handler>>

Next ==
    \/ CallProcessUploadedFiles
    \/ CallProcessAppProject
    \/ CallAnalyzeBug
    \/ AnalyzeBugResume
    \/ CallGenerateImplementation
    \/ GenerateImplementationResume
    \/ Finish

Spec == Init /\ [][Next]_vars

\* ------------------------------------------- detectProjectType on its own
\* detectProjectType reads nothing but the name of each file, so its inputs are
\* lists of named files: the five marker names and one other name.
MarkerNames == {"package.json", "requirements.txt", "pom.xml", "Gemfile", "go.mod"}

NamedFileLists == SeqsUpTo({[name |-> n] : n \in MarkerNames \cup {"app.js"}}, MaxNames)

InitClassify ==
    /\ pc = "idle"
    /\ op = "detectProjectType"
    /\ files \in NamedFileLists
    /\ projectData = Undefined
    /\ fix = Undefined
    /\ reply = NoReply
    /\ promptBuilt = FALSE
    /\ modelCalls = 0
    /\ parseCalls = 0
    /\ result = NoResult
    /\ stored = Saved(CreatedProject)
    /\ handler = [h \in Handlers |-> NotRequested]

\* this.detectProjectType(processedFiles)
CallDetectProjectType ==
    /\ pc = "idle"
    /\ op = "detectProjectType"
    /\ result' = Returned(detectProjectType(files))
    /\ pc' = "done"
    /\ UNCHANGED <<op, files, projectData, fix, reply, promptBuilt, modelCalls, parseCalls, stored, handler>>

SpecClassify == InitClassify /\ [][CallDetectProjectType]_vars

\* ------------------------------------ route handlers sharing one project record
core == <<pc, op, files, projectData, fix, reply, promptBuilt, modelCalls, parseCalls, result>>

\* the project was uploaded before, or its id names no file
InitStore ==
    /\ pc = "idle"
    /\ op = "none"
    /\ files = <<>>
    /\ projectData = Undefined
    /\ fix = Undefined
    /\ reply = NoReply
    /\ promptBuilt = FALSE
    /\ modelCalls = 0
    /\ parseCalls = 0
    /\ result = NoResult
    /\ stored \in {Saved(CreatedProject), NoFile}
    /\ handler = [h \in Handlers |-> NotRequested]

\* a POST for the project arrives at the route
Request(h) ==
    /\ handler[h].pc = "none"
    /\ handler' = [handler EXCEPT ![h].pc = "getProject"]
    /\ UNCHANGED <<stored, core>>

\* const project = await projectManager.getProject(projectId); 404 when null
GetProject(h) ==
    /\ handler[h].pc = "getProject"
    /\ handler' = [handler EXCEPT ![h].pc = IF stored.exists THEN "working" ELSE "notFound"]
    /\ UNCHANGED <<stored, core>>

\* the await of analyzeBug / generateImplementation / the simulated deployment
Work(h) ==
    /\ handler[h].pc = "working"
    /\ handler' = [handler EXCEPT ![h].pc = "updateRead"]
    /\ UNCHANGED <<stored, core>>

\* updateProject: const project = await this.getProject(projectId);
\* if (!project) return null -- the handler answers success all the same
UpdateRead(h) ==
    /\ handler[h].pc = "updateRead"
    /\ handler' = [handler EXCEPT ![h] =
                      IF stored.exists
                      THEN [pc |-> "updateWrite", project |-> stored.data]
                      ELSE [pc |-> "done", project |-> EmptyObject]]
    /\ UNCHANGED <<stored, core>>

\* updateProject: await this.saveProject(updatedProject); then res.json(...)
UpdateWrite(h) ==
    /\ handler[h].pc = "updateWrite"
    /\ stored' = Saved(updatedProject(handler[h].project, updatesOf(h), h))
    /\ handler' = [handler EXCEPT ![h].pc = "done"]
    /\ UNCHANGED core

NextStore ==
    \E h \in Handlers :
        \/ Request(h)
        \/ GetProject(h)
        \/ Work(h)
        \/ UpdateRead(h)
        \/ UpdateWrite(h)

SpecStore == InitStore /\ [][NextStore]_vars

\* --------------------------------------------------------------- properties
Snapshot == result.value

IngestionDone ==
    /\ pc = "done"
    /\ op = "processUploadedFiles"
    /\ result.kind = "returned"

ReadOk == {i \in 1..Len(files) : files[i].readable}

\* line count of the readable inputs, taken from the batch itself
RECURSIVE InputLines(_)
InputLines(fs) ==
    IF fs = <<>> THEN 0
    ELSE (IF Head(fs).readable THEN Head(fs).content.nl + 1 ELSE 0) + InputLines(Tail(fs))

\* C1: for every batch, whichever reads fail, totalFiles is the number of files
\* read successfully and the length of snapshot.files; totalLines is the sum of
\* the per-file line counts; every file read successfully appears exactly once;
\* a failed read adds nothing and does not stop the files after it.
C1_TotalsMatchReadableFiles ==
    IngestionDone =>
        /\ Snapshot.totalFiles = Cardinality(ReadOk)
        /\ Snapshot.totalFiles = Len(Snapshot.files)
        /\ Snapshot.totalLines = SumLines(Snapshot.files)
        /\ Snapshot.totalLines = InputLines(files)
        /\ \A i \in ReadOk :
              Cardinality({j \in 1..Len(Snapshot.files) :
                              Snapshot.files[j].path = files[i].path}) = 1
        /\ \A j \in 1..Len(Snapshot.files) :
              \E i \in ReadOk :
                 /\ Snapshot.files[j].path = files[i].path
                 /\ Snapshot.files[j].lines = files[i].content.nl + 1

\* a batch whose first read failed and whose second succeeded has been ingested
C1_Witness ==
    /\ IngestionDone
    /\ Len(files) = 2
    /\ ~files[1].readable
    /\ files[2].readable
    /\ Snapshot.totalFiles = 1

AnalysisDone ==
    /\ pc = "done"
    /\ op = "analyzeBug"
    /\ result.kind = "returned"

Interpreted == AnalysisDone /\ parseCalls = 1

\* C2: every public operation (processUploadedFiles, processAppProject,
\* analyzeBug, generateImplementation) returns a result and never raises to its
\* caller, whatever the input: also with an undefined fix, undefined project
\* data or undefined caller metadata.
C2_NeverRaises == result.kind # "raised"

\* C3: every BugAnalysis that parseAnalysisResponse, and so analyzeBug, returns
\* has a fixes list with at least one entry, on the strict, lenient, default and
\* mock paths alike.
C3_FixesNonEmpty ==
    AnalysisDone =>
        /\ "fixes" \in DOMAIN result.value
        /\ Len(result.value.fixes) >= 1

Severities == {"low", "medium", "high", "critical"}

\* C4: every BugAnalysis that parseAnalysisResponse or analyzeBug returns has a
\* severity among low, medium, high, critical, whatever the raw text is.
C4_SeverityInEnum ==
    AnalysisDone =>
        /\ "severity" \in DOMAIN result.value
        /\ result.value.severity \in Severities

\* C5: strategies apply in the order strict, lenient, default: when the text has
\* a brace-delimited region that fails to decode, the lenient labelled-section
\* extraction is applied to the text and its result is returned.
C5_LenientAfterFailedDecode ==
    ( /\ Interpreted
      /\ reply.kind = "text"
      /\ jsonMatch(reply.text).found
      /\ JSONparseRegion(jsonMatch(reply.text).region).threw )
    => result.value = lenientAnalysis(reply.text)

\* C6: when the model call of analyzeBug fails, analyzeBug returns the fixed mock
\* whose rootCause signals that the service is unavailable, without calling the
\* Response Interpreter, and that rootCause differs from the rootCause of the
\* interpreter's hard-failure default.
C6_ModelFailureGivesMock ==
    (AnalysisDone /\ reply.kind = "fail") =>
        /\ result.value = mockAnalysis
        /\ parseCalls = 0
        /\ result.value.rootCause # getDefaultAnalysis.rootCause
        /\ result.value.rootCause # parseAnalysisResponse([kind |-> "null", text |-> <<>>]).rootCause

\* the completion call of an analysis request was made and rejected
C6_Witness ==
    /\ AnalysisDone
    /\ promptBuilt
    /\ modelCalls = 1
    /\ reply.kind = "fail"

\* C7: each invocation of analyzeBug and of generateImplementation calls the
\* model completion capability exactly once; a failed call is not retried.
C7_ExactlyOneModelCall ==
    ( /\ pc = "done"
      /\ op \in {"analyzeBug", "generateImplementation"}
      /\ result.kind = "returned" )
    => modelCalls = 1

Languages(fs) == {fs[j].language : j \in 1..Len(fs)}

\* C8: snapshot.languages is exactly the set of distinct language labels of the
\* files read successfully, without the label "Unknown"; a batch of files with
\* unrecognized extensions yields an empty languages collection.
C8_LanguagesExcludeUnknown ==
    IngestionDone =>
        Range(Snapshot.languages) = Languages(Snapshot.files) \ {"Unknown"}

AppProjectDone ==
    /\ pc = "done"
    /\ op = "processAppProject"
    /\ result.kind = "returned"

\* C9: processAppProject(files, metadata) returns a snapshot whose files,
\* totalFiles, totalLines, languages, projectType and dependencies are those of
\* processUploadedFiles(files) for every caller metadata object, also one that
\* carries keys of those names; of the computed fields only name comes from the
\* metadata.
C9_MetadataNeverOverridesComputed ==
    AppProjectDone =>
        /\ \A k \in ComputedKeys : result.value[k] = processUploadedFiles(files)[k]
        /\ result.value.name = Prop(projectData, "name")

\* an app project was built from a non-empty batch and metadata carrying computed keys
C9_Witness ==
    /\ AppProjectDone
    /\ ComputedKeys \subseteq DOMAIN projectData
    /\ Len(files) = 2
    /\ result.value.totalFiles = 2
    /\ result.value.name = "Caller App"

\* the readable package.json files of the batch, by position
Manifests == {i \in ReadOk : files[i].originalname = "package.json"}

Merged(content) ==
    Spread(Member(JSONparse(content).value, "dependencies"),
           Member(JSONparse(content).value, "devDependencies"))

AllReadableRetained ==
    \A i \in ReadOk : \E j \in 1..Len(Snapshot.files) :
        /\ Snapshot.files[j].path = files[i].path
        /\ Snapshot.files[j].name = files[i].originalname

\* C10 as stated: when the batch contains a package.json whose content cannot be
\* decoded, the snapshot still holds every file read successfully and
\* dependencies has no npm key; when the content decodes, dependencies.npm is
\* the merge of its dependencies and devDependencies.
C10_AsStated ==
    IngestionDone =>
        \A i \in Manifests :
            IF JSONparse(files[i].content).threw
            THEN AllReadableRetained /\ "npm" \notin DOMAIN Snapshot.dependencies
            ELSE /\ "npm" \in DOMAIN Snapshot.dependencies
                 /\ Snapshot.dependencies.npm = Merged(files[i].content)

\* the package.json files whose content decodes to something other than null
Usable == {i \in Manifests : LET p == JSONparse(files[i].content) IN ~p.threw /\ ~p.isNull}

\* C10 amended: a package.json that cannot be decoded, or decodes to null, never
\* aborts ingestion and adds nothing; dependencies.npm is absent exactly when no
\* package.json of the batch decodes to a non-null value, and otherwise is the
\* merge (devDependencies over dependencies) of the last one that does.
C10_LastUsableManifestWins ==
    IngestionDone =>
        /\ AllReadableRetained
        /\ ("npm" \in DOMAIN Snapshot.dependencies) <=> (Usable # {})
        /\ Usable # {} =>
              LET last == CHOOSE i \in Usable : \A k \in Usable : k <= i
              IN Snapshot.dependencies.npm = Merged(files[last].content)

\* a batch whose first package.json declares one package in both fields and whose
\* second package.json cannot be decoded has been ingested
C10_Witness ==
    /\ IngestionDone
    /\ Len(files) = 2
    /\ files[1].originalname = "package.json" /\ files[1].readable
    /\ files[2].originalname = "package.json" /\ files[2].readable
    /\ files[1].content.body = "pkgBoth"
    /\ files[2].content.body = "garbage"
    /\ Snapshot.totalFiles = 2
    /\ Snapshot.dependencies.npm = [lib |-> "1", tool |-> "2"]

\* the marker files in priority order, and the ecosystem each one stands for
MarkerPriority == <<"package.json", "requirements.txt", "pom.xml", "Gemfile", "go.mod">>

Ecosystem ==
    <<"Node.js/JavaScript", "Python", "Java", "Ruby", "Go">>

NamesOf(fs) == {fs[i].name : i \in 1..Len(fs)}

ExpectedType(names) ==
    LET present == {k \in 1..Len(MarkerPriority) : MarkerPriority[k] \in names} IN
    IF present = {} THEN "Generic"
    ELSE Ecosystem[CHOOSE k \in present : \A m \in present : k <= m]

Permuted(fs, perm) == [i \in 1..Len(fs) |-> fs[perm[i]]]

ClassifyDone == pc = "done" /\ op = "detectProjectType"

\* C11: detectProjectType returns the ecosystem of the highest-priority marker
\* file present, in the order package.json > requirements.txt > pom.xml >
\* Gemfile > go.mod, else Generic; the result is the same for every permutation
\* of the file list; package.json together with requirements.txt gives Node.
C11_PriorityOrderAnyPermutation ==
    ClassifyDone =>
        /\ result.value = ExpectedType(NamesOf(files))
        /\ \A perm \in Permutations(1..Len(files)) :
              detectProjectType(Permuted(files, perm)) = result.value
        /\ {"package.json", "requirements.txt"} \subseteq NamesOf(files)
              => result.value = "Node.js/JavaScript"

\* a list with requirements.txt ahead of package.json has been classified as Node
C11_Witness ==
    /\ ClassifyDone
    /\ Len(files) >= 2
    /\ files[1].name = "requirements.txt"
    /\ files[2].name = "package.json"
    /\ result.value = "Node.js/JavaScript"

SeverityPriority == <<"critical", "high", "medium", "low">>

WordsPresent(text) == UNION {WordsIn(text[i]) : i \in 1..Len(text)}

ExpectedSeverity(text) ==
    LET present == {k \in 1..Len(SeverityPriority) : SeverityPriority[k] \in WordsPresent(text)} IN
    IF present = {} THEN "medium"
    ELSE SeverityPriority[CHOOSE k \in present : \A m \in present : k <= m]

LenientPath ==
    /\ Interpreted
    /\ reply.kind = "text"
    /\ ~jsonMatch(reply.text).found

\* C12: on the lenient path (text without a brace-delimited region) severity is
\* the first of critical, high, medium, low, in that priority order, that occurs
\* in the lowercased text, or medium when none occurs, and fixes holds exactly
\* one synthesized generic fix whatever the text is.
C12_LenientSeverityAndOneFix ==
    LenientPath =>
        /\ result.value.severity = ExpectedSeverity(reply.text)
        /\ Len(result.value.fixes) = 1
        /\ result.value.fixes[1].title = "Primary Fix"
        /\ \A t \in {<<>>, <<"prose">>} : result.value.fixes = lenientAnalysis(t).fixes

\* a text naming low before CRITICAL, without braces, was interpreted as critical
C12_Witness ==
    /\ LenientPath
    /\ Len(reply.text) >= 2
    /\ reply.text[1] = "low"
    /\ reply.text[2] = "CRITICAL"
    /\ result.value.severity = "critical"

IsEmptySummary(analysis) ==
    /\ analysis.functions = <<>>
    /\ analysis.classes = <<>>
    /\ analysis.imports = <<>>

\* C13: analyzeFile never raises and returns the empty structural summary
\* whenever the extension is not .js or .jsx, and whenever .js/.jsx content
\* fails to parse; in both cases the file stays in the snapshot that
\* processUploadedFiles builds.
C13_EmptySummaryKeepsFile ==
    IngestionDone =>
        \A i \in ReadOk :
            LET ext == extname(files[i].originalname) IN
            (ext \notin {".js", ".jsx"} \/ ParserParse(files[i].content).threw) =>
                \E j \in 1..Len(Snapshot.files) :
                    /\ Snapshot.files[j].path = files[i].path
                    /\ Snapshot.files[j].extension = ext
                    /\ IsEmptySummary(Snapshot.files[j].analysis)

\* a .jsx file that does not parse and a .py file holding a JavaScript function
\* were ingested, and both are in the snapshot
C13_Witness ==
    /\ IngestionDone
    /\ Len(files) = 2
    /\ files[1].originalname = "view.jsx" /\ files[1].readable
    /\ files[1].content.body = "garbage"
    /\ files[2].originalname = "main.py" /\ files[2].readable
    /\ files[2].content.body = "func"
    /\ Snapshot.totalFiles = 2
    /\ IsEmptySummary(Snapshot.files[1].analysis)
    /\ IsEmptySummary(Snapshot.files[2].analysis)

\* C14: analyzeBug returns the service-unavailable mock only when the model
\* completion call itself failed; a failure while building the prompt, or a
\* successful call whose response carries no usable text, does not produce it.
C14_MockOnlyOnModelFailure ==
    (AnalysisDone /\ result.value = mockAnalysis) => reply.kind = "fail"

\* C15: when /api/ai/analyze and /api/ai/implement update the same project
\* concurrently, then after both have completed the stored record holds the
\* fields written by both; no update is lost in updateProject's read-then-write.
C15_NoLostUpdate ==
    (handler["analyze"].pc = "done" /\ handler["implement"].pc = "done") =>
        /\ stored.exists
        /\ "analysis" \in DOMAIN stored.data
        /\ "implementation" \in DOMAIN stored.data

====
